---- MODULE Spec2Model ----
(***************************************************************************)
(* PicomimiGovernor (src/src/PicomimiGovernor.cpp, v2.3): the CPU power    *)
(* governor of the RP2040/RP2350, as a state machine.                      *)
(*                                                                         *)
(* PicomimiGov is the global governor object; its fields keep the source's *)
(* names.  clock is the microsecond counter behind time_us_64() and        *)
(* to_ms_since_boot().  obs is a history variable: what the last call did  *)
(* (for run(), the intermediate results of its scale-evaluation cycle),    *)
(* so that properties of one call can be stated on states.  host is the    *)
(* host program: where it stands in its loop, and what it was written to   *)
(* do, for the specifications that fix a host program.                     *)
(*                                                                         *)
(* Representation of the C types:                                          *)
(*   float loads   : fixed point, LoadUnits units per percent              *)
(*   float _temp   : hundredths of a degree Celsius                        *)
(*   uint32_t ms   : counter modulo 2^MsBits (TLC's integers are 32 bit,   *)
(*                   so the counter is kept narrower than the clock)       *)
(*   uint64_t us   : unbounded integer (never wraps within MaxClockMs)     *)
(* Clock reads inside one call all see the same value: a call's own        *)
(* duration is zero except for the waits of idle()/idleMicros().           *)
(***************************************************************************)
EXTENDS Integers, Sequences, FiniteSets, TLC

VARIABLES PicomimiGov, clock, obs, host

vars == <<PicomimiGov, clock, obs, host>>

----------------------------------------------------------------------------
(* Enumerations of PicomimiGovernor.h *)

PICOMIMI_RP2040 == 0
PICOMIMI_RP2350 == 1

PROFILE_ULTRA_LOW == 0
PROFILE_POWERSAVE == 1
PROFILE_BALANCED == 2
PROFILE_PERFORMANCE == 3
PROFILE_TURBO == 4
PROFILE_COUNT == 5

(* Tables; profile p is at index p + 1 *)
RP2040_FREQ == <<50000, 100000, 133000, 200000, 250000>>
RP2040_VOLT == <<950, 1000, 1050, 1100, 1150>>
RP2350_FREQ == <<50000, 100000, 150000, 250000, 300000>>
RP2350_VOLT == <<950, 1000, 1050, 1100, 1250>>

(* Scaling thresholds (load %) *)
TURBO_UP == 70
TURBO_DOWN == 55
PERF_UP == 45
PERF_DOWN == 30
BAL_UP == 20
BAL_DOWN == 12
SAVE_DOWN == 5
ULTRA_DOWN == 2

(* Timing *)
IDLE_THRESHOLD_US == 100
LOAD_PERIOD_MS == 200
SCALE_INTERVAL_MS == 100
TURBO_MAX_MS == 10000
BOOST_DURATION_MS == 300
THERMAL_THROTTLE == 70
THERMAL_CRITICAL == 80
THERMAL_RELEASE == 60
LOAD_SMOOTH_PCT == 30
FALLBACK_KHZ == 133000

----------------------------------------------------------------------------
(* Bounds of the model *)

\* Spec stops the clock MaxClockMs milliseconds after boot
MaxClockMs == 400
\* SpecLong stops the clock LongClockMs milliseconds after boot
LongClockMs == 30000
\* SpecHw stops the clock HwClockMs milliseconds after boot
HwClockMs == 200
\* SpecSteady stops the clock SteadyClockMs milliseconds after boot
SteadyClockMs == 4000
\* SpecIsr stops the clock IsrClockMs milliseconds after boot
IsrClockMs == 600
\* SpecWrap wakes the host WrapMarginMs milliseconds before the millisecond
\* counter wraps and stops the clock WrapMarginMs milliseconds after
WrapMarginMs == 20000
\* width of the millisecond counter (32 in the source)
MsBits == 20
\* fixed-point resolution of the float loads: units per percent
LoadUnits == 1

MsMod == 2 ^ MsBits

(* Inputs of Spec: a host loop of 100 ms iterations *)

\* time the host spends in its own code between two governor calls (us)
WorkSteps == {100000}
\* arguments of idle(ms)
IdleMs == {100}
\* arguments of idleMicros(us)
IdleUs == {100000}
\* ADC readings of the temperature sensor: about 25, 65, 75 and 82 degrees
RawTemps == {880, 795, 774, 758}
\* arguments duration_sec of setProfile/setTurbo/setPowersave
Durations == {0}
\* arguments chip of begin()
Chips == {PICOMIMI_RP2040, PICOMIMI_RP2350}
\* arguments p of setProfile(); PROFILE_COUNT is the invalid one
Profiles == {PROFILE_BALANCED, PROFILE_COUNT}

(* Inputs of SpecLong: a host loop of 5 s iterations *)

LongWorkSteps == {5000000}
LongIdleMs == {5000}
LongIdleUs == {2500000}
\* about 25 and 75 degrees
LongRawTemps == {880, 774}
LongDurations == {0, 10}

\* what reading the null frequency/voltage table (before begin()) can yield
NullWords == {0, 133000}

----------------------------------------------------------------------------
(* Clock sources *)

\* to_ms_since_boot(get_absolute_time()), a uint32_t
ToMs(us) == (us \div 1000) % MsMod

\* a - b in uint32_t arithmetic
SubU32(a, b) == (a - b + MsMod) % MsMod

\* a + b in uint32_t arithmetic
AddU32(a, b) == (a + b) % MsMod

\* a * b in uint32_t arithmetic
MulU32(a, b) == (a * b) % MsMod

----------------------------------------------------------------------------
(* Constructor *)

\* The fields of the governor object, and with them what the governor acts
\* on: sys_clock_khz and vreg_mv are the system clock and the core voltage in
\* effect (before the first write: the 133 MHz the constructor assumes, at
\* the BALANCED voltage), writes is the log of the _setFreq() calls of the
\* public call in progress, empty between calls.
Constructed ==
  [ _init |-> FALSE, _manual |-> FALSE, _chip |-> PICOMIMI_RP2040,
    _profile |-> PROFILE_BALANCED, _freq_khz |-> 133000, _temp |-> 2500,
    _last_run_us |-> 0, _total_loop_time_us |-> 0,
    _total_idle_time_us |-> 0, _period_start_us |-> 0,
    _avg_load |-> 0, _instant_load |-> 0, _last_scale_ms |-> 0,
    _turbo_start_ms |-> 0, _boost_start_ms |-> 0, _override_end_ms |-> 0,
    _turbo_on |-> FALSE, _throttled |-> FALSE, _boost_on |-> FALSE,
    _override_on |-> FALSE, _override_profile |-> PROFILE_BALANCED,
    _first_run |-> TRUE,
    sys_clock_khz |-> 133000, vreg_mv |-> RP2040_VOLT[PROFILE_BALANCED + 1],
    writes |-> << >> ]

\* _setupTables: the tables are null until begin() has run
FreqTbl(s) == IF s._chip = PICOMIMI_RP2350 THEN RP2350_FREQ ELSE RP2040_FREQ

VoltTbl(s) == IF s._chip = PICOMIMI_RP2350 THEN RP2350_VOLT ELSE RP2040_VOLT

----------------------------------------------------------------------------
(* Actuation *)

\* _toVreg(mv): the regulator setting for mv millivolts, in millivolts
ToVreg(mv) ==
  IF mv <= 850 THEN 850
  ELSE IF mv <= 1250 THEN ((mv + 49) \div 50) * 50
  ELSE 1300

\* set_sys_clock_khz(khz, true) returns true: the actuator accepts khz.  The
\* fallback frequency is one it always accepts (_setFreq does not test the
\* result of the fallback call); ok decides for every other frequency.
Accepted(khz, ok) == ok \/ khz = FALLBACK_KHZ

\* the register writes of _setFreq(khz, mv) with the voltage always written
\* first
WriteOrderVregFirst(s, khz, ok) ==
  (IF khz # s._freq_khz THEN << "vreg" >> ELSE << >>)
    \o (IF Accepted(khz, ok) THEN << "clock" >> ELSE << "clock", "clock" >>)

\* the register writes of _setFreq(khz, mv), in order
WriteOrder(s, khz, ok) ==
  (IF khz > s._freq_khz THEN << "vreg" >> ELSE << >>)
    \o (IF Accepted(khz, ok) THEN << "clock" >> ELSE << "clock", "clock" >>)
    \o (IF Accepted(khz, ok) /\ khz < s._freq_khz THEN << "vreg" >> ELSE << >>)

\* _setFreq(khz, mv) recording the requested frequency when the clock has
\* rejected it
SetFreqRecordsRequest(s, khz, mv, ok) ==
  LET entry == [from |-> s._freq_khz, to |-> khz,
                order |-> WriteOrder(s, khz, ok)]
      s1 == [s EXCEPT !.writes = Append(@, entry),
                      !.vreg_mv = IF khz > s._freq_khz THEN ToVreg(mv) ELSE @]
  IN IF ~Accepted(khz, ok)
       THEN [s1 EXCEPT !.sys_clock_khz = FALLBACK_KHZ, !._freq_khz = khz]
     ELSE [s1 EXCEPT !.sys_clock_khz = khz,
                     !.vreg_mv = IF khz < s._freq_khz THEN ToVreg(mv) ELSE @,
                     !._freq_khz = khz]

\* _setFreq(khz, mv) when set_sys_clock_khz(khz) returns ok
SetFreq(s, khz, mv, ok) ==
  LET entry == [from |-> s._freq_khz, to |-> khz,
                order |-> WriteOrder(s, khz, ok)]
      s1 == [s EXCEPT !.writes = Append(@, entry),
                      !.vreg_mv = IF khz > s._freq_khz THEN ToVreg(mv) ELSE @]
  IN IF ~Accepted(khz, ok)
       THEN [s1 EXCEPT !.sys_clock_khz = FALLBACK_KHZ,
                       !._freq_khz = FALLBACK_KHZ]
     ELSE [s1 EXCEPT !.sys_clock_khz = khz,
                     !.vreg_mv = IF khz < s._freq_khz THEN ToVreg(mv) ELSE @,
                     !._freq_khz = khz]

\* _apply(p) at millisecond time now
Apply(s, p, now, ok) ==
  IF p >= PROFILE_COUNT THEN s
  ELSE LET s1 == SetFreq(s, FreqTbl(s)[p + 1], VoltTbl(s)[p + 1], ok)
           s2 == [s1 EXCEPT !._profile = p]
       IN IF p = PROFILE_TURBO /\ ~s2._turbo_on
            THEN [s2 EXCEPT !._turbo_start_ms = now, !._turbo_on = TRUE]
          ELSE IF p # PROFILE_TURBO
            THEN [s2 EXCEPT !._turbo_on = FALSE]
          ELSE s2

\* _apply(p) before begin(): _freq_tbl and _volt_tbl are null pointers, and
\* the words read through them (khz, mv) are whatever lies at address 4 * p
ApplyNull(s, p, now, khz, mv, ok) ==
  IF p >= PROFILE_COUNT THEN s
  ELSE LET s1 == SetFreq(s, khz, mv, ok)
           s2 == [s1 EXCEPT !._profile = p]
       IN IF p = PROFILE_TURBO /\ ~s2._turbo_on
            THEN [s2 EXCEPT !._turbo_start_ms = now, !._turbo_on = TRUE]
          ELSE IF p # PROFILE_TURBO
            THEN [s2 EXCEPT !._turbo_on = FALSE]
          ELSE s2

\* _apply(p), p a valid profile, up to the return of _setFreq()
ApplyHead(s, p, ok) == SetFreq(s, FreqTbl(s)[p + 1], VoltTbl(s)[p + 1], ok)

\* _apply(p), p a valid profile, from after _setFreq(): _profile and the
\* turbo flag and timer
ApplyTail(s, p, now) ==
  LET s2 == [s EXCEPT !._profile = p]
  IN IF p = PROFILE_TURBO /\ ~s2._turbo_on
       THEN [s2 EXCEPT !._turbo_start_ms = now, !._turbo_on = TRUE]
     ELSE IF p # PROFILE_TURBO
       THEN [s2 EXCEPT !._turbo_on = FALSE]
     ELSE s2

----------------------------------------------------------------------------
(* Load calculation *)

\* 100 * work / elapsed in load units, as the float expression
\* ((float)work / (float)elapsed) * 100.0f computes it, rounded down to the
\* model's resolution (by long division, which keeps every intermediate
\* value below 2^31)
LoadRatio(work, elapsed) ==
  LET r0 == work % elapsed
      r1 == (r0 * 10) % elapsed
      r2 == (r1 * 10) % elapsed
      percent == (work \div elapsed) * 100 + ((r0 * 10) \div elapsed) * 10
                   + (r1 * 10) \div elapsed
  IN percent * LoadUnits + (r2 * LoadUnits) \div elapsed

\* the clamp of _instant_load to [0, 100]
Clamp(x) == IF x < 0 THEN 0 ELSE IF x > 100 * LoadUnits THEN 100 * LoadUnits ELSE x

\* the smoothing without the decay of the old average
SmoothNoDecay(avg, inst) == avg + (inst * LOAD_SMOOTH_PCT) \div 100

\* _avg_load * (1 - LOAD_SMOOTH) + _instant_load * LOAD_SMOOTH
Smooth(avg, inst) ==
  (avg * (100 - LOAD_SMOOTH_PCT) + inst * LOAD_SMOOTH_PCT) \div 100

\* _updateLoad() at microsecond time now_us
UpdateLoad(s, now_us) ==
  LET period_elapsed == now_us - s._period_start_us
      work == s._total_loop_time_us
      inst0 == IF work < IDLE_THRESHOLD_US * 10 THEN 0
               ELSE IF work < 1000 THEN 0
               ELSE LoadRatio(work, period_elapsed)
      inst == Clamp(inst0)
  IN IF period_elapsed < LOAD_PERIOD_MS * 1000 THEN s
     ELSE [s EXCEPT !._instant_load = inst,
                    !._avg_load = Smooth(s._avg_load, inst),
                    !._period_start_us = now_us,
                    !._total_loop_time_us = 0]

----------------------------------------------------------------------------
(* Scaling *)

\* the target of _scale() with PERFORMANCE left below PERF_UP instead of
\* PERF_DOWN: no hysteresis band under PERFORMANCE
ScaleTargetNoBand(profile, load, throttled) ==
  LET up == IF throttled THEN profile
            ELSE IF load >= TURBO_UP * LoadUnits /\ profile < PROFILE_TURBO
              THEN PROFILE_TURBO
            ELSE IF load >= PERF_UP * LoadUnits /\ profile < PROFILE_PERFORMANCE
              THEN PROFILE_PERFORMANCE
            ELSE IF load >= BAL_UP * LoadUnits /\ profile < PROFILE_BALANCED
              THEN PROFILE_BALANCED
            ELSE profile
      down == IF profile = PROFILE_TURBO /\ load < TURBO_DOWN * LoadUnits
                THEN PROFILE_PERFORMANCE
              ELSE IF profile = PROFILE_PERFORMANCE /\ load < PERF_UP * LoadUnits
                THEN PROFILE_BALANCED
              ELSE IF profile = PROFILE_BALANCED /\ load < BAL_DOWN * LoadUnits
                THEN PROFILE_POWERSAVE
              ELSE IF profile = PROFILE_POWERSAVE /\ load < SAVE_DOWN * LoadUnits
                THEN PROFILE_ULTRA_LOW
              ELSE up
  IN IF throttled /\ down > PROFILE_BALANCED THEN PROFILE_BALANCED ELSE down

\* the target of _scale() with TURBO entered from PERF_UP instead of TURBO_UP
ScaleTargetEarlyTurbo(profile, load, throttled) ==
  LET up == IF throttled THEN profile
            ELSE IF load >= PERF_UP * LoadUnits /\ profile < PROFILE_TURBO
              THEN PROFILE_TURBO
            ELSE IF load >= BAL_UP * LoadUnits /\ profile < PROFILE_BALANCED
              THEN PROFILE_BALANCED
            ELSE profile
      down == IF profile = PROFILE_TURBO /\ load < PERF_DOWN * LoadUnits
                THEN PROFILE_PERFORMANCE
              ELSE IF profile = PROFILE_PERFORMANCE /\ load < PERF_DOWN * LoadUnits
                THEN PROFILE_BALANCED
              ELSE IF profile = PROFILE_BALANCED /\ load < BAL_DOWN * LoadUnits
                THEN PROFILE_POWERSAVE
              ELSE IF profile = PROFILE_POWERSAVE /\ load < SAVE_DOWN * LoadUnits
                THEN PROFILE_ULTRA_LOW
              ELSE up
  IN IF throttled /\ down > PROFILE_BALANCED THEN PROFILE_BALANCED ELSE down

\* the target of _scale() with POWERSAVE as the lowest profile it selects
ScaleTargetNoUltraLow(profile, load, throttled) ==
  LET up == IF throttled THEN profile
            ELSE IF load >= TURBO_UP * LoadUnits /\ profile < PROFILE_TURBO
              THEN PROFILE_TURBO
            ELSE IF load >= PERF_UP * LoadUnits /\ profile < PROFILE_PERFORMANCE
              THEN PROFILE_PERFORMANCE
            ELSE IF load >= BAL_UP * LoadUnits /\ profile < PROFILE_BALANCED
              THEN PROFILE_BALANCED
            ELSE profile
      down == IF profile = PROFILE_TURBO /\ load < TURBO_DOWN * LoadUnits
                THEN PROFILE_PERFORMANCE
              ELSE IF profile = PROFILE_PERFORMANCE /\ load < PERF_DOWN * LoadUnits
                THEN PROFILE_BALANCED
              ELSE IF profile = PROFILE_BALANCED /\ load < BAL_DOWN * LoadUnits
                THEN PROFILE_POWERSAVE
              ELSE up
  IN IF throttled /\ down > PROFILE_BALANCED THEN PROFILE_BALANCED ELSE down

\* the target _scale() computes from the profile, the load and the throttle
ScaleTarget(profile, load, throttled) ==
  LET up == IF throttled THEN profile
            ELSE IF load >= TURBO_UP * LoadUnits /\ profile < PROFILE_TURBO
              THEN PROFILE_TURBO
            ELSE IF load >= PERF_UP * LoadUnits /\ profile < PROFILE_PERFORMANCE
              THEN PROFILE_PERFORMANCE
            ELSE IF load >= BAL_UP * LoadUnits /\ profile < PROFILE_BALANCED
              THEN PROFILE_BALANCED
            ELSE profile
      down == IF profile = PROFILE_TURBO /\ load < TURBO_DOWN * LoadUnits
                THEN PROFILE_PERFORMANCE
              ELSE IF profile = PROFILE_PERFORMANCE /\ load < PERF_DOWN * LoadUnits
                THEN PROFILE_BALANCED
              ELSE IF profile = PROFILE_BALANCED /\ load < BAL_DOWN * LoadUnits
                THEN PROFILE_POWERSAVE
              ELSE IF profile = PROFILE_POWERSAVE /\ load < SAVE_DOWN * LoadUnits
                THEN PROFILE_ULTRA_LOW
              ELSE up
  IN IF throttled /\ down > PROFILE_BALANCED THEN PROFILE_BALANCED ELSE down

\* _scale() without the boost test at its head
ScaleIgnoresBoost(s, now, ok) ==
  LET target == ScaleTarget(s._profile, s._avg_load, s._throttled)
  IN IF target # s._profile THEN Apply(s, target, now, ok) ELSE s

\* _scale() at millisecond time now
Scale(s, now, ok) ==
  IF s._boost_on /\ s._profile >= PROFILE_PERFORMANCE THEN s
  ELSE LET target == ScaleTarget(s._profile, s._avg_load, s._throttled)
       IN IF target # s._profile THEN Apply(s, target, now, ok) ELSE s

----------------------------------------------------------------------------
(* Thermal *)

\* the temperature _thermal() computes from the ADC reading raw, in hundredths
\* of a degree: 27 - (raw * (3.3 / 4096) - 0.706) / 0.001721
TempOf(raw) ==
  LET uv == (raw * 103125) \div 128
  IN 2700 - ((uv - 706000) * 100) \div 1721

\* _thermal() releasing the throttle below THERMAL_THROTTLE instead of
\* THERMAL_RELEASE: no hysteresis
ThermalNoBand(s, raw, now, ok) ==
  LET t == TempOf(raw)
      s1 == [s EXCEPT !._temp = t]
  IN IF t >= THERMAL_CRITICAL * 100
       THEN LET s2 == [s1 EXCEPT !._throttled = TRUE]
            IN IF s2._profile > PROFILE_POWERSAVE
                 THEN Apply(s2, PROFILE_POWERSAVE, now, ok) ELSE s2
     ELSE IF t >= THERMAL_THROTTLE * 100 /\ ~s1._throttled
       THEN LET s2 == [s1 EXCEPT !._throttled = TRUE]
            IN IF s2._profile > PROFILE_BALANCED
                 THEN Apply(s2, PROFILE_BALANCED, now, ok) ELSE s2
     ELSE IF t < THERMAL_THROTTLE * 100
       THEN [s1 EXCEPT !._throttled = FALSE]
     ELSE s1

\* _thermal() with the critical branch taken only when not yet throttled,
\* as the throttle branch is
ThermalCriticalOnce(s, raw, now, ok) ==
  LET t == TempOf(raw)
      s1 == [s EXCEPT !._temp = t]
  IN IF t >= THERMAL_CRITICAL * 100 /\ ~s1._throttled
       THEN LET s2 == [s1 EXCEPT !._throttled = TRUE]
            IN IF s2._profile > PROFILE_POWERSAVE
                 THEN Apply(s2, PROFILE_POWERSAVE, now, ok) ELSE s2
     ELSE IF t >= THERMAL_THROTTLE * 100 /\ ~s1._throttled
       THEN LET s2 == [s1 EXCEPT !._throttled = TRUE]
            IN IF s2._profile > PROFILE_BALANCED
                 THEN Apply(s2, PROFILE_BALANCED, now, ok) ELSE s2
     ELSE IF t < THERMAL_RELEASE * 100
       THEN [s1 EXCEPT !._throttled = FALSE]
     ELSE s1

\* _thermal() reading raw from the ADC
Thermal(s, raw, now, ok) ==
  LET t == TempOf(raw)
      s1 == [s EXCEPT !._temp = t]
  IN IF t >= THERMAL_CRITICAL * 100
       THEN LET s2 == [s1 EXCEPT !._throttled = TRUE]
            IN IF s2._profile > PROFILE_POWERSAVE
                 THEN Apply(s2, PROFILE_POWERSAVE, now, ok) ELSE s2
     ELSE IF t >= THERMAL_THROTTLE * 100 /\ ~s1._throttled
       THEN LET s2 == [s1 EXCEPT !._throttled = TRUE]
            IN IF s2._profile > PROFILE_BALANCED
                 THEN Apply(s2, PROFILE_BALANCED, now, ok) ELSE s2
     ELSE IF t < THERMAL_RELEASE * 100
       THEN [s1 EXCEPT !._throttled = FALSE]
     ELSE s1

----------------------------------------------------------------------------
(* Timeouts *)

\* the turbo part of _timeouts() with the limit compared by > instead of >=
TurboTimeoutStrict(s, now, ok) ==
  IF s._turbo_on /\ SubU32(now, s._turbo_start_ms) > TURBO_MAX_MS
    THEN LET s1 == [s EXCEPT !._turbo_on = FALSE]
         IN IF s1._profile = PROFILE_TURBO
              THEN Apply(s1, PROFILE_PERFORMANCE, now, ok) ELSE s1
  ELSE s

\* the turbo part of _timeouts()
TurboTimeout(s, now, ok) ==
  IF s._turbo_on /\ SubU32(now, s._turbo_start_ms) >= TURBO_MAX_MS
    THEN LET s1 == [s EXCEPT !._turbo_on = FALSE]
         IN IF s1._profile = PROFILE_TURBO
              THEN Apply(s1, PROFILE_PERFORMANCE, now, ok) ELSE s1
  ELSE s

\* the boost part of _timeouts()
BoostTimeout(s, now) ==
  IF s._boost_on /\ SubU32(now, s._boost_start_ms) >= BOOST_DURATION_MS
    THEN [s EXCEPT !._boost_on = FALSE]
  ELSE s

\* the override part of _timeouts() with the expiry compared by > instead
\* of >=
OverrideTimeoutStrict(s, now) ==
  IF s._override_on /\ s._override_end_ms > 0 /\ now > s._override_end_ms
    THEN [s EXCEPT !._override_on = FALSE, !._override_end_ms = 0]
  ELSE s

\* the override part of _timeouts()
OverrideTimeout(s, now) ==
  IF s._override_on /\ s._override_end_ms > 0 /\ now >= s._override_end_ms
    THEN [s EXCEPT !._override_on = FALSE, !._override_end_ms = 0]
  ELSE s

\* _timeouts() at millisecond time now
Timeouts(s, now, ok) ==
  OverrideTimeout(BoostTimeout(TurboTimeout(s, now, ok), now), now)

----------------------------------------------------------------------------
(* Manual control *)

\* setProfile(p, duration_sec) without the test of p
SetProfileUnchecked(s, p, duration_sec, now, ok, khz, mv) ==
  LET s1 == [s EXCEPT !._override_on = TRUE,
                      !._override_profile = p,
                      !._override_end_ms =
                         IF duration_sec > 0
                           THEN AddU32(now, MulU32(duration_sec, 1000))
                         ELSE 0]
  IN IF s._init THEN Apply(s1, p, now, ok)
     ELSE ApplyNull(s1, p, now, khz, mv, ok)

\* setProfile(p, duration_sec) at millisecond time now; before begin() the
\* table words read by _apply are khz and mv
SetProfileAt(s, p, duration_sec, now, ok, khz, mv) ==
  IF p >= PROFILE_COUNT THEN s
  ELSE LET s1 == [s EXCEPT !._override_on = TRUE,
                           !._override_profile = p,
                           !._override_end_ms =
                              IF duration_sec > 0
                                THEN AddU32(now, MulU32(duration_sec, 1000))
                              ELSE 0]
       IN IF s._init THEN Apply(s1, p, now, ok)
          ELSE ApplyNull(s1, p, now, khz, mv, ok)

\* inputBoost() without the test of the throttled flag
InputBoostUnthrottled(s, now, ok) ==
  IF ~s._init THEN s
  ELSE LET s1 == [s EXCEPT !._boost_start_ms = now, !._boost_on = TRUE]
       IN IF s1._profile < PROFILE_PERFORMANCE
            THEN Apply(s1, PROFILE_PERFORMANCE, now, ok) ELSE s1

\* inputBoost() at millisecond time now
InputBoostAt(s, now, ok) ==
  IF ~s._init \/ s._throttled THEN s
  ELSE LET s1 == [s EXCEPT !._boost_start_ms = now, !._boost_on = TRUE]
       IN IF s1._profile < PROFILE_PERFORMANCE
            THEN Apply(s1, PROFILE_PERFORMANCE, now, ok) ELSE s1

\* setAuto()
SetAutoAt(s) == [s EXCEPT !._override_on = FALSE, !._override_end_ms = 0]

\* the console lines _handleSerial() acts on: a verb and its numeric argument
SerialCmds ==
  {[verb |-> v, sec |-> 0] : v \in {"none", "status", "auto", "ultra"}}
    \cup [verb : {"turbo", "save", "bal", "perf"}, sec : Durations]

\* _handleSerial() receiving the line cmd
HandleSerial(s, cmd, now, ok) ==
  CASE cmd.verb = "auto" -> SetAutoAt(s)
    [] cmd.verb = "turbo" ->
         SetProfileAt(s, PROFILE_TURBO,
                      IF cmd.sec > 3600 THEN 3600 ELSE cmd.sec, now, ok, 0, 0)
    [] cmd.verb = "save" ->
         SetProfileAt(s, PROFILE_POWERSAVE, cmd.sec, now, ok, 0, 0)
    [] cmd.verb = "bal" ->
         SetProfileAt(s, PROFILE_BALANCED, cmd.sec, now, ok, 0, 0)
    [] cmd.verb = "perf" ->
         SetProfileAt(s, PROFILE_PERFORMANCE, cmd.sec, now, ok, 0, 0)
    [] cmd.verb = "ultra" ->
         SetProfileAt(s, PROFILE_ULTRA_LOW, 0, now, ok, 0, 0)
    [] OTHER -> s

----------------------------------------------------------------------------
(* run() *)

\* the work accounting of run() without the reset of the idle accumulator
AccountKeepsIdle(s, now_us) ==
  LET user_code_time == now_us - s._last_run_us
      work_time == IF user_code_time > s._total_idle_time_us
                     THEN user_code_time - s._total_idle_time_us ELSE 0
      s1 == IF ~s._first_run
              THEN [s EXCEPT !._total_loop_time_us = @ + work_time]
            ELSE s
  IN [s1 EXCEPT !._first_run = FALSE]

\* the work accounting at the head of run(), at microsecond time now_us
Account(s, now_us) ==
  LET user_code_time == now_us - s._last_run_us
      work_time == IF user_code_time > s._total_idle_time_us
                     THEN user_code_time - s._total_idle_time_us ELSE 0
      s1 == IF ~s._first_run
              THEN [s EXCEPT !._total_loop_time_us = @ + work_time]
            ELSE s
  IN [s1 EXCEPT !._first_run = FALSE, !._total_idle_time_us = 0]

\* now_ms - _last_scale_ms >= SCALE_INTERVAL_MS, computed in uint64_t
ScaleDue(s, now) ==
  IF now >= s._last_scale_ms THEN now - s._last_scale_ms >= SCALE_INTERVAL_MS
  ELSE TRUE

\* the thermal check of a scale-evaluation cycle
CycleThermal(s, raw, now, ok) == Thermal(s, raw, now, ok)

\* the timing supervisor of a cycle, run on the thermal check's result
CycleTimeouts(s, raw, now, ok) == Timeouts(CycleThermal(s, raw, now, ok), now, ok)

\* the scale-evaluation cycle of run(): _thermal, _timeouts, _scale unless
\* an override is active, then _last_scale_ms = now_ms
Cycle(s, raw, now, ok) ==
  LET s2 == CycleTimeouts(s, raw, now, ok)
      s3 == IF ~s2._override_on THEN Scale(s2, now, ok) ELSE s2
  IN [s3 EXCEPT !._last_scale_ms = now]

\* the condition of _wfi() without the test of the chip
WfiCondAnyChip(s) ==
  /\ s._profile = PROFILE_ULTRA_LOW
  /\ s._avg_load < ULTRA_DOWN * LoadUnits
  /\ ~s._throttled

\* the condition under which run() calls _wfi()
WfiCond(s) ==
  /\ s._chip = PICOMIMI_RP2350
  /\ s._profile = PROFILE_ULTRA_LOW
  /\ s._avg_load < ULTRA_DOWN * LoadUnits
  /\ ~s._throttled

\* run() up to the scale-evaluation cycle: work accounting and _updateLoad
RunHead(s, now_us) == UpdateLoad(Account(s, now_us), now_us)

\* the end of run() without the write of _last_run_us
RunTailKeepsLastRun(s, cmd, now_us, ok) ==
  IF s._manual THEN HandleSerial(s, cmd, ToMs(now_us), ok) ELSE s

\* run() from after the cycle: _handleSerial in manual mode, _last_run_us
RunTail(s, cmd, now_us, ok) ==
  LET s1 == IF s._manual THEN HandleSerial(s, cmd, ToMs(now_us), ok) ELSE s
  IN [s1 EXCEPT !._last_run_us = now_us]

\* the governor after run() at microsecond time now_us
RunAt(s, raw, cmd, now_us, ok) ==
  LET now == ToMs(now_us)
      s1 == RunHead(s, now_us)
      s2 == IF ScaleDue(s1, now) THEN Cycle(s1, raw, now, ok) ELSE s1
  IN RunTail(s2, cmd, now_us, ok)

\* run() at microsecond time now_us gets as far as the _apply() call of
\* _scale(): the cycle is due, no override is active, _scale() does not
\* return at its boost test and its target differs from the profile
RunReachesApply(s, raw, now_us, ok) ==
  LET now == ToMs(now_us)
      s1 == RunHead(s, now_us)
      s2 == CycleTimeouts(s1, raw, now, ok)
  IN /\ s._init
     /\ ScaleDue(s1, now)
     /\ ~s2._override_on
     /\ ~(s2._boost_on /\ s2._profile >= PROFILE_PERFORMANCE)
     /\ ScaleTarget(s2._profile, s2._avg_load, s2._throttled) # s2._profile

\* the target of that _apply() call
RunApplyTarget(s, raw, now_us, ok) ==
  LET s2 == CycleTimeouts(RunHead(s, now_us), raw, ToMs(now_us), ok)
  IN ScaleTarget(s2._profile, s2._avg_load, s2._throttled)

\* the governor when _setFreq() has returned into that _apply() call
RunToApply(s, raw, now_us, ok) ==
  LET s2 == CycleTimeouts(RunHead(s, now_us), raw, ToMs(now_us), ok)
  IN ApplyHead(s2, RunApplyTarget(s, raw, now_us, ok), ok)

\* the rest of run() from there: the rest of _apply(p), _last_scale_ms,
\* _handleSerial in manual mode, _last_run_us
RunFromApply(s, p, cmd, now_us, ok) ==
  LET s3 == ApplyTail(s, p, ToMs(now_us))
  IN RunTail([s3 EXCEPT !._last_scale_ms = ToMs(now_us)], cmd, now_us, ok)

----------------------------------------------------------------------------
(* What the last call did *)

\* after any call but run(), inputBoost(), setProfile() and setAuto(), and
\* once time has passed
NoObs ==
  [ op |-> "none", cycle |-> FALSE, wfi |-> FALSE, p0 |-> 0, d |-> 0,
    turbo_due |-> FALSE, turbo_to |-> FALSE, turbo_over |-> FALSE,
    ov_due |-> FALSE, ov_to |-> FALSE, end_to |-> 0,
    p_th |-> 0, p_to |-> 0, p_end |-> 0, writes |-> << >>,
    idle |-> 0, work |-> 0 ]

\* after a call op: p0 is the profile inputBoost() found or the profile
\* setProfile() was given, d the duration setProfile() was given
CallObs(op, p0, d) == [NoObs EXCEPT !.op = op, !.p0 = p0, !.d = d]

\* what run() did on governor s at time now_us:
\*   cycle      the scale-evaluation cycle ran
\*   p_th       profile after _thermal
\*   turbo_due  turbo was active with residency >= TURBO_MAX_MS when _timeouts began
\*   ov_due     an override with an expiry at or before now was active then
\*   p_to, turbo_to, ov_to, end_to
\*              profile, _turbo_on, _override_on, _override_end_ms after _timeouts
\*   turbo_over turbo active with residency >= TURBO_MAX_MS after _timeouts
\*   p_end      profile at the end of the cycle
\*   idle       the idle accumulator run() found
\*   work       what the work accounting added to _total_loop_time_us
\*   writes     the _setFreq() calls made (filled in by the caller)
RunObs(s, raw, cmd, now_us, ok) ==
  LET now == ToMs(now_us)
      s1 == RunHead(s, now_us)
      th == CycleThermal(s1, raw, now, ok)
      to == CycleTimeouts(s1, raw, now, ok)
      cy == Cycle(s1, raw, now, ok)
  IN IF ~ScaleDue(s1, now)
       THEN [CallObs("run", 0, 0) EXCEPT
               !.wfi = WfiCond(s1), !.idle = s._total_idle_time_us,
               !.work = Account(s, now_us)._total_loop_time_us
                          - s._total_loop_time_us]
     ELSE [ op |-> "run", cycle |-> TRUE, wfi |-> WfiCond(cy),
            p0 |-> 0, d |-> 0,
            turbo_due |-> th._turbo_on
                          /\ SubU32(now, th._turbo_start_ms) >= TURBO_MAX_MS,
            turbo_to |-> to._turbo_on,
            turbo_over |-> to._turbo_on
                           /\ SubU32(now, to._turbo_start_ms) >= TURBO_MAX_MS,
            ov_due |-> th._override_on /\ th._override_end_ms > 0
                       /\ now >= th._override_end_ms,
            ov_to |-> to._override_on, end_to |-> to._override_end_ms,
            p_th |-> th._profile, p_to |-> to._profile, p_end |-> cy._profile,
            writes |-> << >>, idle |-> s._total_idle_time_us,
            work |-> Account(s, now_us)._total_loop_time_us
                       - s._total_loop_time_us ]

----------------------------------------------------------------------------
(* Public calls *)

\* The governor as stored between two calls.  A start time is read only
\* while its flag is set (_timeouts) and _override_profile is never read, so
\* the model stores the constructor's values for them while the flag is
\* clear, where the code leaves the stale ones: no call can tell the
\* difference, and states that differ only there are one state.
Stored(s) ==
  [s EXCEPT !._turbo_start_ms = IF s._turbo_on THEN @ ELSE 0,
            !._boost_start_ms = IF s._boost_on THEN @ ELSE 0,
            !._override_profile = IF s._override_on THEN @ ELSE PROFILE_BALANCED,
            !.writes = << >>]

\* begin(chip, manual); called once, from setup()
Begin(chip, manual) ==
  /\ ~PicomimiGov._init
  /\ PicomimiGov' =
       LET s == [PicomimiGov EXCEPT !._chip = chip, !._manual = manual]
       IN [s EXCEPT !._profile = PROFILE_BALANCED,
                    !._freq_khz = FreqTbl(s)[PROFILE_BALANCED + 1],
                    !._last_run_us = clock,
                    !._period_start_us = clock,
                    !._total_loop_time_us = 0,
                    !._total_idle_time_us = 0,
                    !._first_run = TRUE,
                    !._last_scale_ms = ToMs(clock),
                    !._init = TRUE]
  /\ obs' = NoObs
  /\ UNCHANGED clock

\* run(): the ADC reads raw, the console delivers cmd, the clock accepts
\* or rejects the frequencies this call requests
Run(raw, cmd, ok) ==
  LET r == RunAt(PicomimiGov, raw, cmd, clock, ok)
  IN /\ PicomimiGov' = IF ~PicomimiGov._init THEN PicomimiGov ELSE Stored(r)
     /\ obs' = IF ~PicomimiGov._init THEN CallObs("run", 0, 0)
               ELSE [RunObs(PicomimiGov, raw, cmd, clock, ok) EXCEPT
                       !.writes = r.writes]
     /\ UNCHANGED clock

\* idle(ms)
Idle(ms) ==
  /\ PicomimiGov' = [PicomimiGov EXCEPT !._total_idle_time_us = @ + ms * 1000]
  /\ clock' = clock + ms * 1000
  /\ obs' = NoObs

\* idleMicros(us)
IdleMicros(us) ==
  /\ PicomimiGov' = [PicomimiGov EXCEPT !._total_idle_time_us = @ + us]
  /\ clock' = clock + us
  /\ obs' = NoObs

\* inputBoost()
InputBoost(ok) ==
  LET r == InputBoostAt(PicomimiGov, ToMs(clock), ok)
  IN /\ PicomimiGov' = Stored(r)
     /\ obs' = [CallObs("inputBoost", PicomimiGov._profile, 0) EXCEPT
                  !.writes = r.writes]
     /\ UNCHANGED clock

\* setProfile(p, duration_sec)
SetProfile(p, duration_sec, ok, khz, mv) ==
  LET r == SetProfileAt(PicomimiGov, p, duration_sec, ToMs(clock), ok,
                        khz, mv)
  IN /\ PicomimiGov' = Stored(r)
     /\ obs' = [CallObs("setProfile", p, duration_sec) EXCEPT
                  !.writes = r.writes]
     /\ UNCHANGED clock

\* setTurbo(s)
SetTurbo(duration_sec, ok, khz, mv) ==
  LET r == SetProfileAt(PicomimiGov, PROFILE_TURBO, duration_sec, ToMs(clock), ok,
                        khz, mv)
  IN /\ PicomimiGov' = Stored(r)
     /\ obs' = [CallObs("setProfile", PROFILE_TURBO, duration_sec) EXCEPT
                  !.writes = r.writes]
     /\ UNCHANGED clock

\* setPowersave(s)
SetPowersave(duration_sec, ok, khz, mv) ==
  LET r == SetProfileAt(PicomimiGov, PROFILE_POWERSAVE, duration_sec, ToMs(clock), ok,
                        khz, mv)
  IN /\ PicomimiGov' = Stored(r)
     /\ obs' = [CallObs("setProfile", PROFILE_POWERSAVE, duration_sec) EXCEPT
                  !.writes = r.writes]
     /\ UNCHANGED clock

\* setAuto()
SetAuto ==
  /\ PicomimiGov' = Stored(SetAutoAt(PicomimiGov))
  /\ obs' = CallObs("setAuto", 0, 0)
  /\ UNCHANGED clock

\* the host runs its own code for d microseconds between two calls
UserCode(d) ==
  /\ clock' = clock + d
  /\ obs' = NoObs
  /\ UNCHANGED PicomimiGov

----------------------------------------------------------------------------
(* Specification *)

\* a host program that calls the governor in any order
FreeHost == [pc |-> "any"]

Init ==
  /\ PicomimiGov = Constructed
  /\ clock = 0
  /\ obs = NoObs
  /\ host = FreeHost

\* the host calls begin() first thing in setup(), as the examples do: before
\* it no time passes and no profile is set (run(), inputBoost() and setAuto()
\* may be called and do nothing)
Booted == PicomimiGov._init

\* the clock stays within the horizon after d more microseconds
Within(d) == clock + d <= MaxClockMs * 1000

NoCmd == [verb |-> "none", sec |-> 0]

Next ==
  \/ Begin(PICOMIMI_RP2350, FALSE) /\ UNCHANGED host
  \/ \E raw \in RawTemps : Run(raw, NoCmd, TRUE) /\ UNCHANGED host
  \/ \E ms \in IdleMs : Booted /\ Within(ms * 1000) /\ Idle(ms)
       /\ UNCHANGED host
  \/ \E us \in IdleUs : Booted /\ Within(us) /\ IdleMicros(us)
       /\ UNCHANGED host
  \/ InputBoost(TRUE) /\ UNCHANGED host
  \/ \E p \in Profiles, d \in Durations :
       Booted /\ SetProfile(p, d, TRUE, 0, 0)
       /\ UNCHANGED host
  \/ \E d \in Durations : Booted /\ SetTurbo(d, TRUE, 0, 0) /\ UNCHANGED host
  \/ \E d \in Durations : Booted /\ SetPowersave(d, TRUE, 0, 0)
       /\ UNCHANGED host
  \/ SetAuto /\ UNCHANGED host
  \/ \E d \in WorkSteps : Booted /\ Within(d) /\ UserCode(d) /\ UNCHANGED host

Spec == Init /\ [][Next]_vars

\* the clock stays within SpecLong's horizon after d more microseconds
WithinLong(d) == clock + d <= LongClockMs * 1000

NextLong ==
  \/ Begin(PICOMIMI_RP2350, FALSE) /\ UNCHANGED host
  \/ \E raw \in LongRawTemps : Run(raw, NoCmd, TRUE) /\ UNCHANGED host
  \/ \E ms \in LongIdleMs : Booted /\ WithinLong(ms * 1000) /\ Idle(ms)
       /\ UNCHANGED host
  \/ \E d \in LongDurations : Booted /\ SetTurbo(d, TRUE, 0, 0)
       /\ UNCHANGED host
  \/ \E d \in LongDurations : Booted /\ SetPowersave(d, TRUE, 0, 0)
       /\ UNCHANGED host
  \/ SetAuto /\ UNCHANGED host
  \/ \E d \in LongWorkSteps : Booted /\ WithinLong(d) /\ UserCode(d)
       /\ UNCHANGED host

SpecLong == Init /\ [][NextLong]_vars

\* automatic mode: the host never sets a profile and never boosts
NextAuto ==
  \/ \E chip \in Chips : Begin(chip, FALSE) /\ UNCHANGED host
  \/ \E raw \in LongRawTemps : Run(raw, NoCmd, TRUE) /\ UNCHANGED host
  \/ \E ms \in LongIdleMs : Booted /\ WithinLong(ms * 1000) /\ Idle(ms)
       /\ UNCHANGED host
  \/ \E us \in LongIdleUs : Booted /\ WithinLong(us) /\ IdleMicros(us)
       /\ UNCHANGED host
  \/ \E d \in LongWorkSteps : Booted /\ WithinLong(d) /\ UserCode(d)
       /\ UNCHANGED host

SpecAuto == Init /\ [][NextAuto]_vars

\* calls before begin(): the host may call anything in any order, and what
\* setProfile() reads through the null tables is any of NullWords, which the
\* clock accepts or rejects
NextBoot ==
  \/ \E chip \in Chips : Begin(chip, FALSE) /\ UNCHANGED host
  \/ \E raw \in LongRawTemps : Run(raw, NoCmd, TRUE) /\ UNCHANGED host
  \/ \E ms \in IdleMs : ~Booted /\ Within(ms * 1000) /\ Idle(ms)
       /\ UNCHANGED host
  \/ \E us \in IdleUs : ~Booted /\ Within(us) /\ IdleMicros(us)
       /\ UNCHANGED host
  \/ ~Booted /\ InputBoost(TRUE) /\ UNCHANGED host
  \/ \E p \in Profiles, d \in Durations, ok \in BOOLEAN, khz \in NullWords :
       ~Booted /\ SetProfile(p, d, ok, khz, khz)
       /\ UNCHANGED host
  \/ \E d \in Durations, ok \in BOOLEAN, khz \in NullWords :
       ~Booted /\ SetTurbo(d, ok, khz, khz)
       /\ UNCHANGED host
  \/ \E d \in Durations, ok \in BOOLEAN, khz \in NullWords :
       ~Booted /\ SetPowersave(d, ok, khz, khz)
       /\ UNCHANGED host
  \/ ~Booted /\ SetAuto /\ UNCHANGED host
  \/ \E d \in WorkSteps : Within(d) /\ UserCode(d) /\ UNCHANGED host

SpecBoot == Init /\ [][NextBoot]_vars

\* a clock that may reject any frequency but the fallback: the host sets
\* every profile, boosts and runs the 100 ms loop of Spec
AllProfiles == PROFILE_ULTRA_LOW .. PROFILE_TURBO

NextHw ==
  \/ \E chip \in Chips : Begin(chip, FALSE) /\ UNCHANGED host
  \/ \E raw \in LongRawTemps, ok \in BOOLEAN : Booted /\ Run(raw, NoCmd, ok)
       /\ UNCHANGED host
  \/ \E ok \in BOOLEAN : Booted /\ InputBoost(ok) /\ UNCHANGED host
  \/ \E p \in AllProfiles, d \in Durations, ok \in BOOLEAN :
       Booted /\ SetProfile(p, d, ok, 0, 0)
       /\ UNCHANGED host
  \/ Booted /\ SetAuto /\ UNCHANGED host
  \/ \E d \in WorkSteps :
       Booted /\ clock + d <= HwClockMs * 1000 /\ UserCode(d)
       /\ UNCHANGED host

SpecHw == Init /\ [][NextHw]_vars

----------------------------------------------------------------------------
(* A host with a steady load: setup() calls begin() and, to start from a   *)
(* profile other than the boot one, setProfile() then setAuto(); loop()    *)
(* calls run(), works host.work microseconds and spends the rest of a      *)
(* sampling period in idle(), with the sensor always reading host.raw.     *)

\* microseconds of work per sampling period: loads of 0, 10, 60 and 75 %
SteadyWork == {0, 20000, 120000, 150000}

\* what loop() is written to do, with setup() still to run
SteadyHosts ==
  [ pc : {"begin"}, chip : Chips, start : AllProfiles, work : SteadyWork,
    raw : LongRawTemps, periods : {0} ]

InitSteady ==
  /\ PicomimiGov = Constructed
  /\ clock = 0
  /\ obs = NoObs
  /\ host \in SteadyHosts

\* the host after its next call: setup() goes from begin() to loop(), by way
\* of setProfile() and setAuto() unless it starts from the boot profile;
\* loop() goes round run(), work and idle(), which ends a sampling period
HostAfter ==
  CASE host.pc = "begin" ->
         [host EXCEPT
            !.pc = IF host.start = PROFILE_BALANCED THEN "run" ELSE "pin"]
    [] host.pc = "pin" -> [host EXCEPT !.pc = "auto"]
    [] host.pc = "auto" -> [host EXCEPT !.pc = "run"]
    [] host.pc = "run" -> [host EXCEPT !.pc = "work"]
    [] host.pc = "work" -> [host EXCEPT !.pc = "idle"]
    [] host.pc = "idle" -> [host EXCEPT !.pc = "run", !.periods = @ + 1]

\* the host stops after the last sampling period that ends within the
\* horizon
HostInTime ==
  host.pc = "work" => clock + LOAD_PERIOD_MS * 1000 <= SteadyClockMs * 1000

\* setup(): begin()
HostBegin ==
  /\ host.pc = "begin"
  /\ Begin(host.chip, FALSE)
  /\ host' = HostAfter

\* setup(): setProfile(start)
HostPin ==
  /\ host.pc = "pin"
  /\ SetProfile(host.start, 0, TRUE, 0, 0)
  /\ host' = HostAfter

\* setup(): setAuto()
HostAuto ==
  /\ host.pc = "auto"
  /\ SetAuto
  /\ host' = HostAfter

\* loop(): run()
HostRun ==
  /\ host.pc = "run"
  /\ Run(host.raw, NoCmd, TRUE)
  /\ host' = HostAfter

\* loop(): the host's own work
HostWork ==
  /\ host.pc = "work"
  /\ HostInTime
  /\ UserCode(host.work)
  /\ host' = HostAfter

\* loop(): idle() for the rest of the sampling period
HostIdle ==
  /\ host.pc = "idle"
  /\ Idle(LOAD_PERIOD_MS - host.work \div 1000)
  /\ host' = HostAfter

NextSteady ==
  \/ HostBegin
  \/ HostPin
  \/ HostAuto
  \/ HostRun
  \/ HostWork
  \/ HostIdle

\* the host makes its next call
HostAdvances == HostInTime /\ host' = HostAfter

\* setup() runs to its end and loop() is entered again each time it
\* returns: the host keeps making its next call until the horizon
SpecSteady == InitSteady /\ [][NextSteady]_vars /\ WF_host(HostAdvances)

----------------------------------------------------------------------------
(* A host whose button interrupt calls inputBoost(): the handler runs to   *)
(* its end between any two instructions of loop().  The model lets it in   *)
(* between two calls and at one point inside run(): in the _apply() call   *)
(* of _scale(), when _setFreq() has returned and _profile is not yet       *)
(* written.  host.pc is "main" between calls and "apply" at that point,    *)
(* where host.p holds _apply()'s argument.  obs describes whole calls      *)
(* only.                                                                   *)

MainHost == [pc |-> "main", p |-> PROFILE_BALANCED]

InitIsr ==
  /\ PicomimiGov = Constructed
  /\ clock = 0
  /\ obs = NoObs
  /\ host = MainHost

WithinIsr(d) == clock + d <= IsrClockMs * 1000

\* run() enters _apply() and is interrupted there
RunInterrupted(raw) ==
  /\ host.pc = "main"
  /\ RunReachesApply(PicomimiGov, raw, clock, TRUE)
  /\ PicomimiGov' = Stored(RunToApply(PicomimiGov, raw, clock, TRUE))
  /\ host' = [pc |-> "apply", p |-> RunApplyTarget(PicomimiGov, raw, clock, TRUE)]
  /\ obs' = NoObs
  /\ UNCHANGED clock

\* the interrupted run() goes on to its end
RunResumed ==
  /\ host.pc = "apply"
  /\ PicomimiGov' = Stored(RunFromApply(PicomimiGov, host.p, NoCmd, clock, TRUE))
  /\ host' = MainHost
  /\ obs' = NoObs
  /\ UNCHANGED clock

NextIsr ==
  \/ \E chip \in Chips : host.pc = "main" /\ Begin(chip, FALSE) /\ UNCHANGED host
  \/ \E raw \in LongRawTemps :
       Booted /\ host.pc = "main" /\ Run(raw, NoCmd, TRUE) /\ UNCHANGED host
  \/ \E raw \in LongRawTemps : RunInterrupted(raw)
  \/ RunResumed
  \/ Booted /\ InputBoost(TRUE) /\ UNCHANGED host
  \/ \E ms \in IdleMs :
       Booted /\ host.pc = "main" /\ WithinIsr(ms * 1000) /\ Idle(ms)
       /\ UNCHANGED host
  \/ \E d \in WorkSteps :
       Booted /\ host.pc = "main" /\ WithinIsr(d) /\ UserCode(d)
       /\ UNCHANGED host

SpecIsr == InitIsr /\ [][NextIsr]_vars

----------------------------------------------------------------------------
(* A host that has been up for almost as long as the millisecond counter   *)
(* takes to wrap (49.7 days in the source): after begin() it spends the    *)
(* time in one idle(), then calls run(), setTurbo(), setPowersave() and    *)
(* setAuto() in any order with 2.5 s and 5 s of idle() between them,       *)
(* across the wrap.                                                        *)

\* argument of the long idle(): up to WrapMarginMs before the wrap
WrapIdleMs == MsMod - WrapMarginMs

\* arguments duration_sec of the overrides
WrapDurations == {10}

WithinWrap(d) == clock + d <= (MsMod + WrapMarginMs) * 1000

NextWrap ==
  \/ Begin(PICOMIMI_RP2350, FALSE) /\ UNCHANGED host
  \/ Booted /\ clock = 0 /\ Idle(WrapIdleMs) /\ UNCHANGED host
  \/ \E raw \in {880} : Booted /\ clock > 0 /\ Run(raw, NoCmd, TRUE)
       /\ UNCHANGED host
  \/ \E ms \in LongIdleMs :
       Booted /\ clock > 0 /\ WithinWrap(ms * 1000) /\ Idle(ms)
       /\ UNCHANGED host
  \/ \E us \in LongIdleUs :
       Booted /\ clock > 0 /\ WithinWrap(us) /\ IdleMicros(us)
       /\ UNCHANGED host
  \/ \E d \in WrapDurations : Booted /\ clock > 0 /\ SetTurbo(d, TRUE, 0, 0)
       /\ UNCHANGED host
  \/ \E d \in WrapDurations :
       Booted /\ clock > 0 /\ SetPowersave(d, TRUE, 0, 0)
       /\ UNCHANGED host
  \/ Booted /\ clock > 0 /\ SetAuto /\ UNCHANGED host

SpecWrap == Init /\ [][NextWrap]_vars

----------------------------------------------------------------------------
(* Properties *)

\* C1: in every reachable state, if the throttled flag is set then the current
\* profile is not above BALANCED, whatever the load.
\* Violated under Spec: setProfile() does not look at the throttled flag.
C1_ThrottledAtMostBalanced ==
  PicomimiGov._throttled => PicomimiGov._profile <= PROFILE_BALANCED

\* C2: in a scale-evaluation cycle during which a manual override stays
\* active, nothing automatic moves the profile: the timing supervisor leaves
\* it where the thermal check left it, and the load-driven state machine is
\* not evaluated.
\* Violated under SpecLong: the turbo limit of _timeouts() does not look at
\* the override.
C2_OverrideHoldsProfile ==
  obs.cycle /\ obs.ov_to => obs.p_to = obs.p_th /\ obs.p_end = obs.p_to

C4_TurboEndsBelowTurbo ==
  obs.cycle /\ obs.turbo_due /\ ~PicomimiGov._override_on
    => obs.p_end < PROFILE_TURBO

\* the load is at or above the down-threshold of profile p and below the
\* up-threshold of the next profile above p
C5_InBand(p, load) ==
  CASE p = PROFILE_TURBO -> load >= TURBO_DOWN * LoadUnits
    [] p = PROFILE_PERFORMANCE ->
         load >= PERF_DOWN * LoadUnits /\ load < TURBO_UP * LoadUnits
    [] p = PROFILE_BALANCED ->
         load >= BAL_DOWN * LoadUnits /\ load < PERF_UP * LoadUnits
    [] p = PROFILE_POWERSAVE ->
         load >= SAVE_DOWN * LoadUnits /\ load < BAL_UP * LoadUnits
    [] OTHER -> load < BAL_UP * LoadUnits

\* no override, no boost and no throttling in governor s
C5_Plain(s) == ~s._override_on /\ ~s._boost_on /\ ~s._throttled

\* C5 as claimed: with no override, no boost and no throttling, a step that
\* keeps the smoothed load within the band of the current profile does not
\* change the profile.
\* Violated under SpecAuto: at TURBO with the load in [55, 70) the turbo limit
\* moves the profile to PERFORMANCE.
C5_BandHoldsProfile ==
  [][ C5_Plain(PicomimiGov) /\ C5_Plain(PicomimiGov')
      /\ C5_InBand(PicomimiGov._profile, PicomimiGov._avg_load)
      /\ C5_InBand(PicomimiGov._profile, PicomimiGov'._avg_load)
      => PicomimiGov'._profile = PicomimiGov._profile ]_vars

\* C5 amended: with no override, no boost and no throttling, a step that
\* keeps the smoothed load within the band of the current profile does not
\* change the profile, unless it is a cycle in which the timing supervisor
\* finds turbo active with a residency of at least TURBO_MAX_MS.
C5_BandHoldsProfileUnlessTurboDue ==
  [][ C5_Plain(PicomimiGov) /\ C5_Plain(PicomimiGov')
      /\ C5_InBand(PicomimiGov._profile, PicomimiGov._avg_load)
      /\ C5_InBand(PicomimiGov._profile, PicomimiGov'._avg_load)
      /\ ~obs'.turbo_due
      => PicomimiGov'._profile = PicomimiGov._profile ]_vars

\* C5 happens: a cycle began and ended at PERFORMANCE with the smoothed load
\* between PERF_DOWN and PERF_UP
C5_Witness ==
  /\ obs.cycle /\ C5_Plain(PicomimiGov)
  /\ obs.p_th = PROFILE_PERFORMANCE /\ PicomimiGov._profile = PROFILE_PERFORMANCE
  /\ PicomimiGov._avg_load >= PERF_DOWN * LoadUnits
  /\ PicomimiGov._avg_load < PERF_UP * LoadUnits

\* C6: in every reachable state the instantaneous load and the smoothed load
\* are within [0, 100].
C6_LoadsInRange ==
  /\ PicomimiGov._instant_load >= 0
  /\ PicomimiGov._instant_load <= 100 * LoadUnits
  /\ PicomimiGov._avg_load >= 0
  /\ PicomimiGov._avg_load <= 100 * LoadUnits

\* C6 happens: a load period of nothing but work was measured as 100 and the
\* smoothed load has followed it above TURBO_UP
C6_Witness ==
  /\ obs.op = "run"
  /\ PicomimiGov._instant_load = 100 * LoadUnits
  /\ PicomimiGov._avg_load >= TURBO_UP * LoadUnits

\* C7: the throttled flag has hysteresis: it changes only in a thermal
\* check, becomes true only when the check reads at least THERMAL_THROTTLE,
\* becomes false only when it reads less than THERMAL_RELEASE, and every
\* check that reads a temperature between the two leaves it unchanged.
C7_ThrottleHysteresis ==
  [][ /\ PicomimiGov'._throttled # PicomimiGov._throttled =>
           /\ obs'.cycle
           /\ PicomimiGov'._throttled =>
                PicomimiGov'._temp >= THERMAL_THROTTLE * 100
           /\ ~PicomimiGov'._throttled =>
                PicomimiGov'._temp < THERMAL_RELEASE * 100
      /\ ( /\ obs'.cycle
           /\ PicomimiGov'._temp >= THERMAL_RELEASE * 100
           /\ PicomimiGov'._temp < THERMAL_THROTTLE * 100 )
         => PicomimiGov'._throttled = PicomimiGov._throttled ]_vars

\* C7 happens: a thermal check read a temperature inside the band and the
\* flag, set by an earlier check, is still set
C7_Witness ==
  /\ obs.cycle
  /\ PicomimiGov._temp >= THERMAL_RELEASE * 100
  /\ PicomimiGov._temp < THERMAL_THROTTLE * 100
  /\ PicomimiGov._throttled

\* C8: at the end of every scale-evaluation cycle that read a temperature
\* of at least THERMAL_CRITICAL, throttled is set and the profile is
\* POWERSAVE or lower, whatever the load, boost and override; at the end of
\* every cycle that read less than THERMAL_RELEASE, throttled is clear.
C8_CriticalForcesPowersave ==
  /\ obs.cycle /\ PicomimiGov._temp >= THERMAL_CRITICAL * 100 =>
       PicomimiGov._throttled /\ PicomimiGov._profile <= PROFILE_POWERSAVE
  /\ obs.cycle /\ PicomimiGov._temp < THERMAL_RELEASE * 100 =>
       ~PicomimiGov._throttled

\* C8 happens: a cycle read a critical temperature while an override pinned
\* TURBO, and ended at POWERSAVE
C8_Witness ==
  /\ obs.cycle /\ PicomimiGov._temp >= THERMAL_CRITICAL * 100
  /\ PicomimiGov._override_on
  /\ PicomimiGov._override_profile = PROFILE_TURBO
  /\ PicomimiGov._profile = PROFILE_POWERSAVE

\* C9: inputBoost() on an initialized, unthrottled governor returns with the
\* profile at PERFORMANCE if it was lower and unchanged if it was
\* PERFORMANCE or TURBO, with boost active and the boost start time set to
\* the time of the call; on a throttled or uninitialized governor it changes
\* nothing.
C9_InputBoost ==
  [][ obs'.op = "inputBoost" =>
        IF PicomimiGov._init /\ ~PicomimiGov._throttled
          THEN /\ PicomimiGov'._profile =
                    IF PicomimiGov._profile < PROFILE_PERFORMANCE
                      THEN PROFILE_PERFORMANCE ELSE PicomimiGov._profile
               /\ PicomimiGov'._boost_on
               /\ PicomimiGov'._boost_start_ms = ToMs(clock)
        ELSE PicomimiGov' = PicomimiGov ]_vars

\* C9 happens: inputBoost() found a profile below PERFORMANCE and raised it
C9_Witness ==
  /\ obs.op = "inputBoost" /\ obs.p0 < PROFILE_PERFORMANCE
  /\ PicomimiGov._profile = PROFILE_PERFORMANCE
  /\ PicomimiGov._boost_on

\* what C10 says of a state: setProfile() with a valid profile leaves the
\* override active, expiring d seconds from the call if d > 0 and never if
\* d = 0; a cycle that leaves the override active does not evaluate the state
\* machine; a cycle at or after the expiry clears the flag and the expiry and
\* ends at the profile the state machine selects
C10_State ==
  /\ obs.op = "setProfile" =>
       /\ PicomimiGov._override_on
       /\ PicomimiGov._override_end_ms =
            IF obs.d > 0 THEN ToMs(clock) + obs.d * 1000 ELSE 0
  /\ obs.cycle /\ obs.ov_to => obs.p_end = obs.p_to
  /\ obs.cycle /\ obs.ov_due =>
       /\ ~obs.ov_to /\ obs.end_to = 0
       /\ ~PicomimiGov._override_on /\ PicomimiGov._override_end_ms = 0
       /\ obs.p_end = ScaleTarget(obs.p_to, PicomimiGov._avg_load,
                                  PicomimiGov._throttled)

\* what C10 says of a step: an active override is cleared only by setAuto()
\* or by a cycle at or after its expiry, and an override without expiry
\* (d = 0) only by setAuto()
C10_Step ==
  PicomimiGov._override_on /\ ~PicomimiGov'._override_on =>
    \/ obs'.op = "setAuto"
    \/ /\ obs'.cycle
       /\ PicomimiGov._override_end_ms > 0
       /\ ToMs(clock') >= PicomimiGov._override_end_ms

\* C10: after setProfile(p, d) with d > 0 the override stays active and the
\* state machine is not evaluated until d seconds have elapsed; the first
\* cycle at or after the expiry clears the override flag and the expiry and
\* automatic evaluation resumes; with d = 0 the override never expires and is
\* cleared only by setAuto().
C10_OverrideExpiry == [](C10_State) /\ [][C10_Step]_vars

\* C10 happens: a cycle found the override expired, cleared it, and the
\* state machine moved the profile in the same cycle
C10_Witness ==
  /\ obs.cycle /\ obs.ov_due /\ ~obs.ov_to
  /\ ~PicomimiGov._override_on
  /\ obs.p_end # obs.p_to

\* C11: before begin() has been called, run() and every mutating call change
\* no governor state and request no actuation, so that the accessors return
\* the constructor's values.
\* Violated under SpecBoot: idle() and idleMicros() add to the idle
\* accumulator and setProfile() sets the override and applies the profile,
\* none of them looking at _init.
C11_NoEffectBeforeBegin ==
  ~PicomimiGov._init => PicomimiGov = Constructed /\ obs.writes = << >>

\* the clock rejected the request of log entry e: _setFreq wrote the clock
\* twice
C12_Rejected(e) == Len(SelectSeq(e.order, LAMBDA w : w = "clock")) = 2

\* the last _setFreq() call of the call that has just returned
C12_Last == obs.writes[Len(obs.writes)]

\* C12: after every call that actuated, the recorded frequency equals the
\* frequency actually running; when the clock rejected the last request
\* both are the baseline 133 MHz and not the requested frequency, and when it
\* accepted it both are the requested one.
C12_RecordedIsActual ==
  obs.writes # << >> =>
    /\ PicomimiGov._freq_khz = PicomimiGov.sys_clock_khz
    /\ PicomimiGov._freq_khz =
         IF C12_Rejected(C12_Last) THEN FALLBACK_KHZ ELSE C12_Last.to

\* C12 happens: the clock rejected a request for another frequency than the
\* baseline, which is now both recorded and running
C12_Witness ==
  /\ obs.writes # << >> /\ C12_Rejected(C12_Last)
  /\ C12_Last.to # FALLBACK_KHZ
  /\ PicomimiGov._freq_khz = FALLBACK_KHZ
  /\ PicomimiGov.sys_clock_khz = FALLBACK_KHZ

C14_Step ==
  obs'.op = "setProfile" /\ obs'.p0 >= PROFILE_COUNT =>
    PicomimiGov' = PicomimiGov /\ obs'.writes = << >>

\* C14: setProfile(p, d) with p outside the five profiles is a no-op (the
\* override flag, pinned profile, expiry, current profile, frequency and turbo
\* flag are unchanged, nothing is actuated), and the current profile is one
\* of the five in every reachable state.
C14_InvalidProfileIgnored ==
  [](PicomimiGov._profile \in AllProfiles) /\ [][C14_Step]_vars

\* C14 happens: setProfile(PROFILE_COUNT, d) returned on an initialized
\* governor in automatic mode, whose profile the state machine had lowered
C14_Witness ==
  /\ obs.op = "setProfile" /\ obs.p0 = PROFILE_COUNT
  /\ PicomimiGov._init /\ ~PicomimiGov._override_on
  /\ PicomimiGov._profile < PROFILE_BALANCED

\* what C15 says of a step: a tick other than the first adds as work the
\* time elapsed since the previous tick less the idle time recorded since,
\* or nothing when that is negative, and leaves the idle accumulator at zero
C15_Step ==
  obs'.op = "run" /\ PicomimiGov._init =>
    LET elapsed == clock' - PicomimiGov._last_run_us
        recorded == PicomimiGov._total_idle_time_us
    IN /\ obs'.idle = recorded
       /\ obs'.work = IF PicomimiGov._first_run THEN 0
                      ELSE IF elapsed > recorded THEN elapsed - recorded
                      ELSE 0
       /\ PicomimiGov'._total_idle_time_us = 0

\* C15: idle time recorded by idle()/idleMicros() between two ticks is
\* subtracted, floored at zero, from that interval's elapsed time (a tick
\* after idle(N) and N ms adds no work), and the idle accumulator is zero
\* after every tick.
C15_IdleOffsetsWork == [][C15_Step]_vars

\* C15 happens: a tick found idle time recorded, equal to the whole
\* interval since the previous tick, and added no work
C15_Witness ==
  /\ obs.op = "run" /\ PicomimiGov._init
  /\ obs.idle > 0 /\ obs.work = 0
  /\ PicomimiGov._total_idle_time_us = 0
  /\ PicomimiGov._last_run_us > LOAD_PERIOD_MS * 1000

----------------------------------------------------------------------------
\* the host starts from initialization (no setProfile()), works 75 % of
\* every sampling period, and the sensor stays below the throttle threshold
C16_Host ==
  /\ host.start = PROFILE_BALANCED
  /\ host.work * 100 = 75 * LOAD_PERIOD_MS * 1000
  /\ TempOf(host.raw) < THERMAL_THROTTLE * 100

C16_Step ==
  C16_Host =>
    /\ PicomimiGov'._avg_load >= PicomimiGov._avg_load
    /\ PicomimiGov'._avg_load <= 75 * LoadUnits
    /\ PicomimiGov'._instant_load \in {0, 75 * LoadUnits}
    /\ PicomimiGov'._profile = PROFILE_TURBO
         => PicomimiGov'._avg_load >= TURBO_UP * LoadUnits
    /\ ~PicomimiGov'._throttled /\ ~PicomimiGov'._boost_on
    /\ ~PicomimiGov'._override_on

\* C16: from initialization (BALANCED, smoothed load 0), with no throttling,
\* boost or override and an instantaneous load of 75 in every sampling
\* period, the smoothed load never falls and never exceeds 75, the profile
\* is TURBO only once the smoothed load is at least 70, and the profile does
\* reach TURBO.
C16_SustainedLoadReachesTurbo ==
  /\ [][C16_Step]_vars
  /\ (C16_Host /\ host.pc = "begin") ~> (PicomimiGov._profile = PROFILE_TURBO)

\* run() has entered TURBO in a period measured at 75, the smoothed load
\* having risen from 0 to 70 or more
C16_Witness ==
  /\ C16_Host
  /\ obs.op = "run" /\ obs.cycle
  /\ Len(obs.writes) = 1
  /\ PicomimiGov._profile = PROFILE_TURBO
  /\ PicomimiGov._instant_load = 75 * LoadUnits
  /\ PicomimiGov._avg_load >= TURBO_UP * LoadUnits
  /\ PicomimiGov._avg_load < 75 * LoadUnits

----------------------------------------------------------------------------
\* the host is idle: no work in any sampling period
C17_Idle == host.work = 0

\* the host is in loop(), about to call run()
C17_InLoop == host.pc = "run"

\* a run() of the idle host's loop leaves the profile or lowers it by one,
\* leaves ULTRA_LOW in place, and finds no load, boost or override
C17_Tick ==
  /\ PicomimiGov'._profile \in {PicomimiGov._profile, PicomimiGov._profile - 1}
  /\ PicomimiGov._profile = PROFILE_ULTRA_LOW
       => PicomimiGov'._profile = PROFILE_ULTRA_LOW
  /\ PicomimiGov'._instant_load = 0
  /\ ~PicomimiGov'._boost_on /\ ~PicomimiGov'._override_on

C17_StepAnyTemp == C17_Idle /\ C17_InLoop => C17_Tick

\* C17 as stated: an idle host, no boost or override; whatever the profile
\* it starts from, the governor gets to ULTRA_LOW, one profile per tick at
\* most, and stays there.
C17_IdleReachesUltraLow ==
  /\ [][C17_StepAnyTemp]_vars
  /\ (C17_Idle /\ C17_InLoop) ~> (PicomimiGov._profile = PROFILE_ULTRA_LOW)

\* the sensor stays below the throttle threshold
C17_Cool ==
  host.raw \in {raw \in LongRawTemps : TempOf(raw) < THERMAL_THROTTLE * 100}

C17_StepCool == C17_Idle /\ C17_Cool /\ C17_InLoop => C17_Tick

\* C17 amended: an idle host, no boost or override and a temperature that
\* never throttles; whatever the profile it starts from, the governor gets to
\* ULTRA_LOW, one profile per tick at most, and stays there.
C17_IdleCoolReachesUltraLow ==
  /\ [][C17_StepCool]_vars
  /\ (C17_Idle /\ C17_Cool /\ C17_InLoop)
       ~> (PicomimiGov._profile = PROFILE_ULTRA_LOW)

\* the idle host started from TURBO, and run() has just taken the last
\* step down, from POWERSAVE to ULTRA_LOW
C17_Witness ==
  /\ C17_Idle /\ C17_Cool
  /\ host.start = PROFILE_TURBO
  /\ obs.op = "run" /\ obs.cycle
  /\ Len(obs.writes) = 1
  /\ obs.writes[1].from = FreqTbl(PicomimiGov)[PROFILE_POWERSAVE + 1]
  /\ PicomimiGov._profile = PROFILE_ULTRA_LOW

----------------------------------------------------------------------------
\* the profiles the README's load-to-profile table gives for a smoothed
\* load, a load on a boundary of the table belonging to both rows
C18_ReadmeProfiles(load) ==
  { p \in AllProfiles :
      \/ p = PROFILE_ULTRA_LOW /\ load < 2 * LoadUnits
      \/ p = PROFILE_POWERSAVE /\ 2 * LoadUnits <= load /\ load <= 12 * LoadUnits
      \/ p = PROFILE_BALANCED /\ 12 * LoadUnits <= load /\ load <= 30 * LoadUnits
      \/ p = PROFILE_PERFORMANCE /\ 30 * LoadUnits <= load
           /\ load <= 55 * LoadUnits
      \/ p = PROFILE_TURBO /\ load >= 55 * LoadUnits }

\* a tick of the steady host that ran the scale-evaluation cycle and left
\* both the smoothed load and the profile as they were: for the same load
\* in every later period, every later tick does the same
C18_Settled ==
  /\ host.pc = "run" /\ host.periods > 0
  /\ C17_Cool
  /\ obs'.op = "run" /\ obs'.cycle
  /\ ~PicomimiGov'._throttled /\ ~PicomimiGov'._boost_on
  /\ ~PicomimiGov'._override_on
  /\ PicomimiGov'._avg_load = PicomimiGov._avg_load
  /\ PicomimiGov'._profile = PicomimiGov._profile

C18_Step ==
  C18_Settled => PicomimiGov'._profile \in C18_ReadmeProfiles(PicomimiGov'._avg_load)

\* C18: with a constant smoothed load and no throttling, boost or override,
\* the profile the governor has settled in is the one the README's table
\* gives for that load, whatever the profile it started from.
C18_SettlesPerReadmeTable == [][C18_Step]_vars

----------------------------------------------------------------------------
\* C20: a tick enters the wait-for-interrupt halt only on an RP2350 that is
\* in ULTRA_LOW with a smoothed load below 2 and not throttled; on an
\* RP2040, or in any other profile, no tick enters it.
C20_WfiOnlyWhereSupported ==
  obs.wfi =>
    /\ obs.op = "run"
    /\ PicomimiGov._init
    /\ PicomimiGov._chip = PICOMIMI_RP2350
    /\ PicomimiGov._profile = PROFILE_ULTRA_LOW
    /\ PicomimiGov._avg_load < 2 * LoadUnits
    /\ ~PicomimiGov._throttled

\* a tick on an RP2350 has entered the halt, in the cycle that took the
\* profile down to ULTRA_LOW
C20_Witness ==
  /\ obs.op = "run" /\ obs.wfi /\ obs.cycle
  /\ obs.p_to = PROFILE_POWERSAVE
  /\ PicomimiGov._chip = PICOMIMI_RP2350

----------------------------------------------------------------------------
\* what inputBoost() may write: the boost flag and the boost timestamp
C19_BoostFields(s) == [s EXCEPT !._boost_on = FALSE, !._boost_start_ms = 0]

\* an inputBoost() from the interrupt handler leaves every other field of
\* the governor, and the clock and voltage, as they were
C19_Step ==
  obs'.op = "inputBoost" => C19_BoostFields(PicomimiGov') = C19_BoostFields(PicomimiGov)

\* what every call leaves behind when nothing interrupts it: the recorded
\* frequency is the profile's, and the turbo flag (which guards the turbo
\* timer) is set exactly in TURBO
C19_Coherent ==
  /\ PicomimiGov._freq_khz = FreqTbl(PicomimiGov)[PicomimiGov._profile + 1]
  /\ PicomimiGov._turbo_on <=> PicomimiGov._profile = PROFILE_TURBO

\* no call of the main context is in progress
C19_Quiescent == Booted /\ host.pc = "main"

\* C19: an inputBoost() that interrupts loop(), run() included, writes only
\* the boost flag and the boost timestamp, and once run() has returned the
\* profile, the turbo flag and the recorded frequency are as some
\* uninterrupted sequence of calls leaves them.
C19_BoostFromInterruptIsBenign ==
  /\ [][C19_Step]_vars
  /\ [](C19_Quiescent => C19_Coherent)

----------------------------------------------------------------------------
\* boost is active and BOOST_DURATION_MS or more have passed since the last
\* inputBoost() that took effect
C21_Due ==
  /\ PicomimiGov._boost_on
  /\ SubU32(ToMs(clock), PicomimiGov._boost_start_ms) >= BOOST_DURATION_MS

\* a scale-evaluation cycle that finds boost active: before the boost
\* duration has passed it leaves boost active and, with no override and no
\* throttling, a profile of PERFORMANCE or TURBO at PERFORMANCE or above; once
\* the duration has passed it clears boost and, with no override, ends at
\* the profile the state machine selects for the load
C21_Cycle ==
  /\ ~C21_Due =>
       /\ PicomimiGov'._boost_on
       /\ PicomimiGov'._boost_start_ms = PicomimiGov._boost_start_ms
       /\ ( /\ PicomimiGov._profile >= PROFILE_PERFORMANCE
            /\ ~PicomimiGov._override_on
            /\ ~PicomimiGov._throttled /\ ~PicomimiGov'._throttled )
            => PicomimiGov'._profile >= PROFILE_PERFORMANCE
  /\ C21_Due =>
       /\ ~PicomimiGov'._boost_on
       /\ ~obs'.ov_to =>
            obs'.p_end = ScaleTarget(obs'.p_to, PicomimiGov'._avg_load,
                                     PicomimiGov'._throttled)

\* boost-active is cleared by a scale-evaluation cycle only
C21_Step ==
  PicomimiGov._boost_on =>
    IF obs'.op = "run" /\ obs'.cycle THEN C21_Cycle
    ELSE PicomimiGov'._boost_on

\* C21: while boost is active, with no override and no throttling, no
\* scale-evaluation cycle lowers the profile below PERFORMANCE, however low
\* the smoothed load; the first cycle at which BOOST_DURATION_MS (300 ms) or
\* more have passed since the last inputBoost() clears boost-active, and
\* load-driven evaluation resumes in that cycle.
C21_BoostHoldsFloor == [][C21_Step]_vars

\* 200 ms or more after inputBoost(), a cycle with a smoothed load of zero has
\* left the profile at PERFORMANCE and boost active
C21_Witness ==
  /\ obs.op = "run" /\ obs.cycle
  /\ PicomimiGov._boost_on
  /\ SubU32(ToMs(clock), PicomimiGov._boost_start_ms) >= 2 * SCALE_INTERVAL_MS
  /\ ~PicomimiGov._override_on /\ ~PicomimiGov._throttled
  /\ PicomimiGov._avg_load = 0
  /\ PicomimiGov._profile = PROFILE_PERFORMANCE

----------------------------------------------------------------------------
\* the call of this step found the profile at TURBO and did not leave TURBO
\* on the way (a cycle may: its timing supervisor leaves TURBO and its state
\* machine enters it again)
C22_StayedInTurbo ==
  /\ PicomimiGov._profile = PROFILE_TURBO
  /\ obs'.cycle => obs'.p_th = PROFILE_TURBO /\ obs'.p_to = PROFILE_TURBO

\* a step that ends in TURBO: entering TURBO from another profile it records
\* the time as the turbo start, staying in TURBO it leaves the turbo start
\* alone
C22_Step ==
  Booted /\ PicomimiGov'._profile = PROFILE_TURBO =>
    PicomimiGov'._turbo_start_ms =
      IF C22_StayedInTurbo THEN PicomimiGov._turbo_start_ms ELSE ToMs(clock')

\* C22: once begin() has been called, every public call returns with
\* turbo-active true exactly when the profile is TURBO; entering TURBO
\* records the turbo start time and re-applying TURBO does not restart it.
\* Violated under SpecBoot: begin() writes _profile = BALANCED and leaves
\* _turbo_on as a setTurbo() before begin() set it.
C22_TurboFlagMatchesProfile ==
  /\ [](Booted =>
          (PicomimiGov._turbo_on <=> PicomimiGov._profile = PROFILE_TURBO))
  /\ [][C22_Step]_vars

----------------------------------------------------------------------------
\* 1 if the profile changed from p to q, else 0
C23_Changed(p, q) == IF p # q THEN 1 ELSE 0

\* the profile changes of one scale-evaluation cycle: by the thermal check,
\* by the timing supervisor and by the state machine
C23_Changes ==
  C23_Changed(PicomimiGov._profile, obs'.p_th)
    + C23_Changed(obs'.p_th, obs'.p_to)
    + C23_Changed(obs'.p_to, obs'.p_end)

C23_Step ==
  obs'.op = "run" /\ obs'.cycle =>
    /\ C23_Changes <= 1
    /\ Len(obs'.writes) <= 1
    /\ ~obs'.ov_to =>
         obs'.p_end \in {obs'.p_to,
                         ScaleTarget(obs'.p_to, PicomimiGov'._avg_load,
                                     PicomimiGov'._throttled)}

\* C23: one scale-evaluation cycle (thermal check, timing supervisor, state
\* machine) changes the profile at most once, the state machine applying the
\* single target it picks only if it differs from the profile.
\* Violated under SpecAuto: the timing supervisor moves TURBO to PERFORMANCE
\* at the turbo limit and the state machine of the same cycle moves
\* PERFORMANCE back to TURBO; the thermal check caps the profile at BALANCED
\* and the state machine of the same cycle steps it down to POWERSAVE.
C23_OneChangePerCycle == [][C23_Step]_vars

----------------------------------------------------------------------------
\* an upward rule of _scale() is satisfied by profile p and smoothed load
C24_Up(p, load) ==
  \/ load >= TURBO_UP * LoadUnits /\ p < PROFILE_TURBO
  \/ load >= PERF_UP * LoadUnits /\ p < PROFILE_PERFORMANCE
  \/ load >= BAL_UP * LoadUnits /\ p < PROFILE_BALANCED

\* a downward rule of _scale() is satisfied by profile p and smoothed load
C24_Down(p, load) ==
  \/ p = PROFILE_TURBO /\ load < TURBO_DOWN * LoadUnits
  \/ p = PROFILE_PERFORMANCE /\ load < PERF_DOWN * LoadUnits
  \/ p = PROFILE_BALANCED /\ load < BAL_DOWN * LoadUnits
  \/ p = PROFILE_POWERSAVE /\ load < SAVE_DOWN * LoadUnits

\* no profile and load satisfy an upward and a downward rule together
C24_RulesExclusive ==
  \A p \in AllProfiles, load \in 0 .. 100 * LoadUnits :
    ~(C24_Up(p, load) /\ C24_Down(p, load))

\* the state machine was evaluated in the last cycle and lowered the profile
C24_Lowered ==
  /\ obs.op = "run" /\ obs.cycle /\ ~obs.ov_to
  /\ obs.p_end < obs.p_to

\* C24: in one evaluation of the state machine the upward and the downward
\* rules are never both satisfied, for any profile and load, and every
\* downward transition the state machine makes is by exactly one profile.
\* Violated under Spec: with the throttle set, an evaluation that finds the
\* profile at TURBO (put there by setTurbo(), released by setAuto()) moves it
\* to BALANCED.
C24_DownByOneStep ==
  /\ C24_RulesExclusive
  /\ C24_Lowered => obs.p_end = obs.p_to - 1

----------------------------------------------------------------------------
\* between calls the work accumulated in the sampling period is at most the
\* time from the start of the period to the end of the last run()
C25_State ==
  Booted =>
    /\ PicomimiGov._period_start_us <= PicomimiGov._last_run_us
    /\ PicomimiGov._total_loop_time_us
         <= PicomimiGov._last_run_us - PicomimiGov._period_start_us

\* the work total _updateLoad() finds in the run() of this step
C25_Work == Account(PicomimiGov, clock)._total_loop_time_us

\* the time elapsed since the start of the sampling period
C25_Elapsed == clock - PicomimiGov._period_start_us

\* a run(): if the sampling period is over, the load is recomputed from a
\* work total that is at most the time elapsed, and the period start and the
\* work total are reset; if not, neither is reset
C25_Step ==
  obs'.op = "run" /\ Booted =>
    IF C25_Elapsed >= LOAD_PERIOD_MS * 1000
      THEN /\ C25_Work <= C25_Elapsed
           /\ C25_Work >= 1000 =>
                /\ LoadRatio(C25_Work, C25_Elapsed) <= 100 * LoadUnits
                /\ PicomimiGov'._instant_load = LoadRatio(C25_Work, C25_Elapsed)
           /\ PicomimiGov'._period_start_us = clock
           /\ PicomimiGov'._total_loop_time_us = 0
    ELSE /\ PicomimiGov'._period_start_us = PicomimiGov._period_start_us
         /\ PicomimiGov'._total_loop_time_us = C25_Work

\* C25: at every load recomputation the work accumulated in the sampling
\* period is at most the time elapsed since the period started, whatever the
\* sequence of run(), idle() and idleMicros() calls, so that the ratio
\* 100 * work / elapsed is at most 100 before the clamp; the period start and
\* the work total are reset together, at a recomputation and only then.
C25_WorkWithinPeriod == [](C25_State) /\ [][C25_Step]_vars

\* a recomputation has found a period wholly spent in work: ratio 100
C25_Witness ==
  /\ obs.op = "run" /\ Booted
  /\ clock > 0
  /\ PicomimiGov._period_start_us = clock
  /\ PicomimiGov._total_loop_time_us = 0
  /\ PicomimiGov._instant_load = 100 * LoadUnits

----------------------------------------------------------------------------
\* the lowest profile of governor s whose table frequency is at or above khz
\* (TURBO if there is none)
C26_ProfileFor(s, khz) ==
  LET fit == {p \in AllProfiles : FreqTbl(s)[p + 1] >= khz}
  IN IF fit = {} THEN PROFILE_TURBO
     ELSE CHOOSE p \in fit : \A q \in fit : p <= q

\* the table voltage of that profile
C26_TableVoltage(s, khz) == VoltTbl(s)[C26_ProfileFor(s, khz) + 1]

\* C26: after every public call that changed or re-applied the profile, also
\* when the clock rejected the requested frequency and _setFreq() fell back
\* to 133 MHz, the core voltage in effect is at least the table voltage of
\* the lowest profile whose table frequency is at or above the frequency the
\* clock is running at.
\* Violated under SpecHw: a rejected raise from ULTRA_LOW to POWERSAVE leaves
\* the clock at 133 MHz with POWERSAVE's voltage.
C26_VoltageCoversClock ==
  Booted /\ obs.writes # << >> =>
    PicomimiGov.vreg_mv
      >= C26_TableVoltage(PicomimiGov, PicomimiGov.sys_clock_khz)

----------------------------------------------------------------------------
\* millisecond time a is at or after b, the counter having wrapped or not;
\* for times less than half the counter's range apart
C27_AtOrAfter(a, b) == SubU32(a, b) < MsMod \div 2

\* setProfile(p, d) with d > 0 has just returned: the expiry is non-zero and
\* d * 1000 ms after the time of the call
C27_State ==
  obs.op = "setProfile" /\ obs.d > 0 =>
    /\ PicomimiGov._override_on
    /\ PicomimiGov._override_end_ms # 0
    /\ PicomimiGov._override_end_ms
         = AddU32(ToMs(clock), MulU32(obs.d, 1000))

\* a cycle that finds an override with an expiry clears it if the time is
\* at or after the expiry, and only then
C27_Step ==
  ( /\ obs'.op = "run" /\ obs'.cycle
    /\ PicomimiGov._override_on /\ PicomimiGov._override_end_ms # 0 )
    => ( ~PicomimiGov'._override_on
           <=> C27_AtOrAfter(ToMs(clock), PicomimiGov._override_end_ms) )

\* C27: the expiry setProfile(p, d) computes for d > 0 is non-zero and
\* d * 1000 ms after the call in the counter's arithmetic, and the expiry test
\* of a cycle clears the override exactly from that time on, also when the
\* millisecond counter wraps between the call and the expiry.
\* Violated under SpecWrap: an expiry that wraps to 0 means "no expiry", an
\* expiry that wraps to a small value is already below the counter at the
\* next cycle, and an expiry the counter wraps past unnoticed is not reached
\* again.
C27_ExpiryAcrossWrap == [](C27_State) /\ [][C27_Step]_vars

====
